---- MODULE Spec2Model ----
(***************************************************************************)
(* Model of the two local HTTP services of Mate-Engine:                    *)
(*   TTSServer/tts_server.py          (Flask app, POST /synthesize)        *)
(*   WhisperServer/whisper_server.py  (Flask app, POST /transcribe)        *)
(*                                                                         *)
(* The two are separate programs, each run as its own process: a          *)
(* behaviour is the life of one process, and `service` says of which.      *)
(* State: the process-wide model handle of each program, the position of   *)
(* the process in main(), the handler invocations in flight (app.run is    *)
(* called with threaded=True, so several run at once), the temporary       *)
(* directory, and the response returned by the last step.  A handler is    *)
(* cut into steps at its calls on the temporary directory; what lies       *)
(* between two such calls is local to the thread and is part of the step.  *)
(* Library calls that can raise (model load, inference, file I/O) succeed  *)
(* or raise nondeterministically.                                          *)
(*                                                                         *)
(* A request body is immutable and private to its handler, so the request  *)
(* is drawn at the step whose outcome depends on it: the validating step   *)
(* draws any request, the responding step draws any request that passed    *)
(* validation and reads response_format and speed from it.                 *)
(***************************************************************************)
EXTENDS Integers, Sequences, FiniteSets, TLC

VARIABLES
    service,     \* which program the process runs: "tts" or "stt"
    tts_model,   \* tts_server.py: global tts_model ("None" or the model name)
    model,       \* whisper_server.py: global model ("None" or the model name)
    proc,        \* the process: position in main(), how it was started, exit code
    thr,         \* per thread: the handler invocation it runs
    disk,        \* the temporary directory: per name, exists / created by
    out          \* the response returned by the last step (NoOut if none)

vars == <<service, tts_model, model, proc, thr, disk, out>>

\* Bounds of the model
MaxThreads == 2
MaxNames == 2

Threads == 1..MaxThreads
Names == 1..MaxNames
Services == {"tts", "stt"}

-----------------------------------------------------------------------------
\* Python str.strip() and str.lower() on strings as sequences of characters

Whitespace == {" ", "\t", "\n"}

RECURSIVE LStrip(_)
LStrip(s) == IF s # <<>> /\ Head(s) \in Whitespace THEN LStrip(Tail(s)) ELSE s

RECURSIVE RStrip(_)
RStrip(s) ==
    IF s # <<>> /\ s[Len(s)] \in Whitespace
    THEN RStrip(SubSeq(s, 1, Len(s) - 1))
    ELSE s

Strip(s) == RStrip(LStrip(s))

LowerChar(c) ==
    CASE c = "W" -> "w"
      [] c = "A" -> "a"
      [] c = "V" -> "v"
      [] c = "M" -> "m"
      [] c = "P" -> "p"
      [] OTHER -> c

Lower(s) == [i \in 1..Len(s) |-> LowerChar(s[i])]

-----------------------------------------------------------------------------
\* JSON values as request.get_json() returns them.  num is in tenths (10 is 1.0).

JNull == [type |-> "null", str |-> <<>>, num |-> 0, items |-> <<>>, fields |-> <<>>]
JStr(s) == [JNull EXCEPT !.type = "string", !.str = s]
JNum(n) == [JNull EXCEPT !.type = "number", !.num = n]
JArr(a) == [JNull EXCEPT !.type = "array", !.items = a]
JObj(f) == [JNull EXCEPT !.type = "object", !.fields = f]

\* Python truth value: None, {}, [], "", 0 are false
Truthy(v) ==
    CASE v.type = "null" -> FALSE
      [] v.type = "string" -> v.str # <<>>
      [] v.type = "number" -> v.num # 0
      [] v.type = "array" -> v.items # <<>>
      [] v.type = "object" -> DOMAIN v.fields # {}

TextKey == <<"t", "e", "x", "t">>

\* Python `needle in s` on strings: substring test
IsSubstring(needle, s) ==
    \E i \in 1..(Len(s) - Len(needle) + 1) : SubSeq(s, i, i + Len(needle) - 1) = needle

-----------------------------------------------------------------------------
\* The requests a client can send to POST /synthesize

Wav == <<"w", "a", "v">>

\* a text that passes the validation, and texts that do not; 'text' may also
\* be a number or null
GoodText == JStr(<<" ", "h", "i", "\n">>)
BadTexts == { JStr(<<" ", "\t", "\n">>), JStr(<<>>), JNum(5), JNull }

FormatValues == { JStr(<<"W", "a", "V">>), JStr(<<"m", "p", "3">>), JNum(5) }

\* {"text": t} with the optional keys of K set to f and s
TtsObject(K, t, f, s) ==
    JObj([k \in K \cup {"text"} |-> CASE k = "text" -> t
                                      [] k = "response_format" -> f
                                      [] k = "speed" -> s])

TtsObjects ==
    { TtsObject({}, GoodText, JNull, JNull), TtsObject({"speed"}, GoodText, JNull, JNum(20)),
      TtsObject({"response_format", "speed"}, GoodText, JStr(<<"m", "p", "3">>), JNum(20)) } \cup
    { TtsObject({"response_format"}, GoodText, f, JNull) : f \in FormatValues } \cup
    { TtsObject({}, t, JNull, JNull) : t \in BadTexts } \cup
    { JObj(<<>>), JObj([k \in {"response_format"} |-> JStr(<<"m", "p", "3">>)]) }

TtsPayloads ==
    TtsObjects \cup
    { JNull, JNum(5), JNum(0), JStr(<<>>), JStr(<<"a", " ">> \o TextKey),
      JArr(<<>>), JArr(<<JStr(TextKey)>>), JArr(<<JStr(<<"x">>)>>) }

\* is_json: the Content-Type is a JSON one; raw: the body is absent, is not
\* parsable JSON, or parses to value
TtsRequests ==
    { [is_json |-> FALSE, raw |-> "absent", value |-> JNull],
      [is_json |-> FALSE, raw |-> "json", value |-> TtsObject({}, GoodText, JNull, JNull)],
      [is_json |-> TRUE, raw |-> "absent", value |-> JNull],
      [is_json |-> TRUE, raw |-> "malformed", value |-> JNull] } \cup
    { [is_json |-> TRUE, raw |-> "json", value |-> v] : v \in TtsPayloads }

\* flask.Request.get_json() with its defaults (force=False, silent=False): the
\* set of outcomes.  Without a JSON Content-Type the body is not parsed:
\* Flask before 2.1 returns None, Flask 2.1 and later raises
\* UnsupportedMediaType.  With one, an absent or unparsable body raises BadRequest.
GetJson(req) ==
    IF ~req.is_json
    THEN { [raised |-> "", value |-> JNull],
           [raised |-> "UnsupportedMediaType", value |-> JNull] }
    ELSE IF req.raw # "json"
    THEN { [raised |-> "BadRequest", value |-> JNull] }
    ELSE { [raised |-> "", value |-> req.value] }

\* `'text' in data` for a data that supports `in`
Contains(data) ==
    CASE data.type = "object" -> "text" \in DOMAIN data.fields
      [] data.type = "array" -> \E i \in 1..Len(data.items) : data.items[i] = JStr(TextKey)
      [] data.type = "string" -> IsSubstring(TextKey, data.str)
      [] OTHER -> FALSE

\* data.get(key, default) on a dict
Get(data, key, default) ==
    IF key \in DOMAIN data.fields THEN data.fields[key] ELSE default

-----------------------------------------------------------------------------
\* Responses

NoOut ==
    [svc |-> "none", endpoint |-> "none", phase |-> "none", status |-> 0, error |-> "",
     escaped |-> FALSE, raisedAt |-> "", tmp |-> 0, tmpLeft |-> FALSE, calls |-> 0,
     unlinks |-> 0, model_loaded |-> FALSE, req |-> <<>>]

\* A response of a handler that ran no thread state: (status, error field)
Resp(status, error, raisedAt) ==
    [status |-> status, error |-> error, raisedAt |-> raisedAt, escaped |-> FALSE]

\* An exception no except clause of the handler catches reaches Flask, which
\* answers 500 with an HTML page (no 'error' field)
Uncaught(stage) ==
    [status |-> 500, error |-> "", raisedAt |-> stage, escaped |-> TRUE]

\* synthesize(): which except clause catches an exception raised at a stage.
\* The inner try (lines 94-132) holds the synthesis; the outer try (74-136)
\* holds the whole body.
TtsInnerStages ==
    {"mktemp", "tts_to_file", "sf_read", "unlink", "time_stretch", "lower", "sf_write"}

TtsHandlerOf(stage) == IF stage \in TtsInnerStages THEN "inner" ELSE "outer"

TtsRaise(stage) ==
    CASE TtsHandlerOf(stage) = "inner" -> Resp(500, "Speech synthesis failed", stage)
      [] TtsHandlerOf(stage) = "outer" -> Resp(500, "Request processing failed", stage)
      [] OTHER -> Uncaught(stage)

Pass == Resp(0, "", "")

\* synthesize() lines 75-85: the validation of a request, given the handle
\* and the outcome gj of get_json(); Pass when the request goes on to synthesis
SynthValidate(handle, gj) ==
    LET data == gj.value IN
    IF handle = "None" THEN Resp(500, "TTS model not loaded", "")
    ELSE IF gj.raised # "" THEN TtsRaise("get_json")
    ELSE IF ~Truthy(data) THEN Resp(400, "No text provided", "")
    ELSE IF data.type = "number" THEN TtsRaise("in")         \* TypeError: not iterable
    ELSE IF ~Contains(data) THEN Resp(400, "No text provided", "")
    ELSE IF data.type # "object" THEN TtsRaise("subscript")  \* TypeError: data['text']
    ELSE LET text == data.fields["text"] IN
         IF text.type # "string" THEN TtsRaise("strip")      \* AttributeError
         ELSE IF Strip(text.str) = <<>> THEN Resp(400, "Empty text provided", "")
         ELSE Pass

\* The requests get_json() returns normally for and that pass the validation
ValidTtsRequests ==
    { r \in TtsRequests :
        \E gj \in GetJson(r) : gj.raised = "" /\ SynthValidate("loaded", gj) = Pass }

\* SynthRespond without the comparison of line 115: any format is written as WAV
SynthRespondAnyFormat(req, stretchOk, writeOk) ==
    LET response_format == Get(req.value, "response_format", JStr(Wav))
        speed == Get(req.value, "speed", JNum(10))
    IN  IF speed # JNum(10) /\ ~stretchOk THEN TtsRaise("time_stretch")
        ELSE IF response_format.type # "string" THEN TtsRaise("lower")
        ELSE IF writeOk THEN Resp(200, "", "") ELSE TtsRaise("sf_write")

\* synthesize() lines 88-89 and 108-128: what follows the unlink of the
\* temporary file.  stretchOk, writeOk: librosa's time_stretch and sf.write
\* return rather than raise.
SynthRespond(req, stretchOk, writeOk) ==
    LET response_format == Get(req.value, "response_format", JStr(Wav))
        speed == Get(req.value, "speed", JNum(10))
    IN  IF speed # JNum(10) /\ ~stretchOk THEN TtsRaise("time_stretch")
        ELSE IF response_format.type # "string" THEN TtsRaise("lower")  \* AttributeError
        ELSE IF Lower(response_format.str) = Wav
        THEN IF writeOk THEN Resp(200, "", "") ELSE TtsRaise("sf_write")
        ELSE Resp(400, "Unsupported format", "")

-----------------------------------------------------------------------------
\* The state machine

PrimaryModel == "tacotron2-DDC"
FallbackModel == "glow-tts"
WhisperModel == "base"

Handle == IF service = "tts" THEN tts_model ELSE model

Idle == [pc |-> "idle", tmp |-> 0, calls |-> 0, unlinks |-> 0]

NoFile == [exists |-> FALSE, owner |-> 0]

NotStarted ==
    [pc |-> "init", viaMain |-> FALSE, loaded |-> FALSE, exitCode |-> 0,
     loads |-> 0, assigns |-> 0]

Init ==
    /\ service \in Services
    /\ tts_model = "None"
    /\ model = "None"
    /\ proc = NotStarted
    /\ thr = [t \in Threads |-> Idle]
    /\ disk = [n \in Names |-> NoFile]
    /\ out = NoOut

\* tempfile.NamedTemporaryFile: the names it can return (mkstemp opens with
\* O_EXCL, so a name that exists is never returned)
FreeNames == { n \in Names : ~disk[n].exists }

\* The files thread t's finished invocation left in d belong to no live
\* invocation any more
Release(d, t) ==
    [n \in Names |-> IF d[n].owner = t THEN [d[n] EXCEPT !.owner = 0] ELSE d[n]]

\* The response r of thread t's handler to request req is returned and the
\* handler invocation ends; th is the thread's state and d the temporary
\* directory when it returns.  phase: the request was still being validated,
\* or was being processed.  tmpLeft: the file it created is still there.
Return(t, th, r, req, d) ==
    /\ out' = [svc |-> service,
               endpoint |-> IF service = "tts" THEN "synthesize" ELSE "transcribe",
               phase |-> IF th.pc = "validating" THEN "validating" ELSE "processing",
               status |-> r.status, error |-> r.error,
               escaped |-> r.escaped, raisedAt |-> r.raisedAt, tmp |-> th.tmp,
               tmpLeft |-> th.tmp # 0 /\ d[th.tmp].exists /\ d[th.tmp].owner = t,
               calls |-> th.calls, unlinks |-> th.unlinks,
               model_loaded |-> Handle # "None", req |-> req]
    /\ thr' = [thr EXCEPT ![t] = Idle]
    /\ disk' = Release(d, t)

\* ---- startup (load_tts_model, load_whisper_model, main) ----

\* LoadTtsModel without the fallback of lines 51-59
LoadTtsModelNoFallback(primaryOk, fallbackOk) ==
    IF primaryOk
    THEN [handle |-> PrimaryModel, result |-> TRUE, loads |-> 1, assigns |-> 1]
    ELSE [handle |-> "None", result |-> FALSE, loads |-> 1, assigns |-> 0]

\* load_tts_model(): the handle it leaves and the value it returns, given
\* whether loading the primary and the fallback model succeeds; loads counts
\* the models it tried, assigns its assignments to tts_model
LoadTtsModel(primaryOk, fallbackOk) ==
    IF primaryOk
    THEN [handle |-> PrimaryModel, result |-> TRUE, loads |-> 1, assigns |-> 1]
    ELSE IF fallbackOk
    THEN [handle |-> FallbackModel, result |-> TRUE, loads |-> 2, assigns |-> 1]
    ELSE [handle |-> "None", result |-> FALSE, loads |-> 2, assigns |-> 0]

\* load_whisper_model()
LoadWhisperModel(ok) ==
    IF ok
    THEN [handle |-> WhisperModel, result |-> TRUE, loads |-> 1, assigns |-> 1]
    ELSE [handle |-> "None", result |-> FALSE, loads |-> 1, assigns |-> 0]

\* MainAfterLoad without the test of the load routine's result
MainIgnoresLoad(ld, runOk) ==
    [pc |-> IF runOk THEN "serving" ELSE "exited",
     viaMain |-> TRUE, loaded |-> ld.result,
     exitCode |-> IF runOk THEN 0 ELSE 1,
     loads |-> ld.loads, assigns |-> ld.assigns]

\* main() of either service after the load routine returned ld: sys.exit(1)
\* when it returned False; otherwise app.run, which serves, or raises before
\* serving (the port cannot be bound) and the process exits 1
MainAfterLoad(ld, runOk) ==
    [pc |-> IF ld.result /\ runOk THEN "serving" ELSE "exited",
     viaMain |-> TRUE, loaded |-> ld.result,
     exitCode |-> IF ld.result /\ runOk THEN 0 ELSE 1,
     loads |-> ld.loads, assigns |-> ld.assigns]

\* tts_server.py: main()
TtsMain ==
    /\ service = "tts" /\ proc.pc = "init"
    /\ \E primaryOk, fallbackOk, runOk \in BOOLEAN :
         LET ld == LoadTtsModel(primaryOk, fallbackOk) IN
         /\ tts_model' = ld.handle
         /\ proc' = MainAfterLoad(ld, runOk)
    /\ out' = NoOut
    /\ UNCHANGED <<service, model, thr, disk>>

\* whisper_server.py: main()
SttMain ==
    /\ service = "stt" /\ proc.pc = "init"
    /\ \E ok, runOk \in BOOLEAN :
         LET ld == LoadWhisperModel(ok) IN
         /\ model' = ld.handle
         /\ proc' = MainAfterLoad(ld, runOk)
    /\ out' = NoOut
    /\ UNCHANGED <<service, tts_model, thr, disk>>

\* The module is imported and its `app` served by a WSGI host or a test
\* client: main() and the load routine never run
ServeImported ==
    /\ proc.pc = "init"
    /\ proc' = [proc EXCEPT !.pc = "serving"]
    /\ out' = NoOut
    /\ UNCHANGED <<service, tts_model, model, thr, disk>>

\* ---- the handlers without a temporary file ----

\* health() of either service
Health ==
    /\ proc.pc = "serving"
    /\ out' = [NoOut EXCEPT !.svc = service, !.endpoint = "health", !.status = 200,
                            !.model_loaded = Handle # "None"]
    /\ UNCHANGED <<service, tts_model, model, proc, thr, disk>>

\* get_models() of either service
GetModels ==
    /\ proc.pc = "serving"
    /\ out' = [NoOut EXCEPT !.svc = service, !.endpoint = "models", !.status = 200,
                            !.model_loaded = Handle # "None"]
    /\ UNCHANGED <<service, tts_model, model, proc, thr, disk>>

\* get_voices() of the synthesis service
GetVoices ==
    /\ service = "tts" /\ proc.pc = "serving"
    /\ out' = [NoOut EXCEPT !.svc = service, !.endpoint = "voices", !.status = 200,
                            !.model_loaded = Handle # "None"]
    /\ UNCHANGED <<service, tts_model, model, proc, thr, disk>>

\* ---- a request arrives ----

\* The serving process dispatches POST /synthesize (POST /transcribe) to a
\* thread of its own (threaded=True).  Threads are interchangeable: the
\* request takes the first slot that is not in use.
Accept(t) ==
    /\ proc.pc = "serving"
    /\ thr[t].pc = "idle"
    /\ \A u \in Threads : u < t => thr[u].pc # "idle"
    /\ thr' = [thr EXCEPT ![t] = [Idle EXCEPT !.pc = "validating"]]
    /\ out' = NoOut
    /\ UNCHANGED <<service, tts_model, model, proc, disk>>

\* ---- synthesize() ----

\* lines 75-91
SynthValidating(t) ==
    /\ service = "tts" /\ thr[t].pc = "validating"
    /\ \E req \in TtsRequests : \E gj \in GetJson(req) :
         LET r == SynthValidate(tts_model, gj) IN
         IF r = Pass
         THEN /\ thr' = [thr EXCEPT ![t].pc = "mktemp"]
              /\ out' = NoOut
              /\ disk' = disk
         ELSE Return(t, thr[t], r, req, disk)
    /\ UNCHANGED <<service, tts_model, model, proc>>

\* lines 96-97: NamedTemporaryFile(delete=False) creates and closes a file
SynthMkTemp(t) ==
    /\ service = "tts" /\ thr[t].pc = "mktemp"
    /\ \/ \E n \in FreeNames :
            /\ disk' = [disk EXCEPT ![n] = [exists |-> TRUE, owner |-> t]]
            /\ thr' = [thr EXCEPT ![t].pc = "tts_to_file", ![t].tmp = n]
            /\ out' = NoOut
       \/ \E req \in ValidTtsRequests :
            Return(t, thr[t], TtsRaise("mktemp"), req, disk)
    /\ UNCHANGED <<service, tts_model, model, proc>>

\* line 100: the model writes the audio to the path (creating the file if
\* it is not there), or raises
SynthTtsToFile(t) ==
    /\ service = "tts" /\ thr[t].pc = "tts_to_file"
    /\ LET th == [thr[t] EXCEPT !.calls = @ + 1] IN
       \/ /\ thr' = [thr EXCEPT ![t] = [th EXCEPT !.pc = "sf_read"]]
          /\ disk' = IF disk[th.tmp].exists THEN disk
                     ELSE [disk EXCEPT ![th.tmp] = [exists |-> TRUE, owner |-> t]]
          /\ out' = NoOut
       \/ \E req \in ValidTtsRequests :
            Return(t, th, TtsRaise("tts_to_file"), req, disk)
    /\ UNCHANGED <<service, tts_model, model, proc>>

\* line 103: sf.read of the path
SynthRead(t) ==
    /\ service = "tts" /\ thr[t].pc = "sf_read"
    /\ \/ /\ disk[thr[t].tmp].exists
          /\ thr' = [thr EXCEPT ![t].pc = "unlink"]
          /\ out' = NoOut
          /\ disk' = disk
       \/ \E req \in ValidTtsRequests :
            Return(t, thr[t], TtsRaise("sf_read"), req, disk)
    /\ UNCHANGED <<service, tts_model, model, proc>>

\* lines 106-132: os.unlink of the path, then speed, format and the response
SynthFinish(t) ==
    /\ service = "tts" /\ thr[t].pc = "unlink"
    /\ \E req \in ValidTtsRequests :
         \/ /\ disk[thr[t].tmp].exists
            /\ \E stretchOk, writeOk \in BOOLEAN :
                 Return(t, [thr[t] EXCEPT !.unlinks = @ + 1],
                        SynthRespond(req, stretchOk, writeOk), req,
                        [disk EXCEPT ![thr[t].tmp] = NoFile])
         \/ Return(t, thr[t], TtsRaise("unlink"), req, disk)
    /\ UNCHANGED <<service, tts_model, model, proc>>

\* ---- transcribe() ----

AudioName == <<"a", ".", "w", "a", "v">>

\* The requests a client can send to POST /transcribe: a multipart form with
\* or without a file part 'audio' and a form field 'response_format'
SttRequests ==
    { [audio |-> a, filename |-> f, form |-> m] :
        a \in BOOLEAN, f \in {<<>>, AudioName},
        m \in { <<>>, [k \in {"response_format"} |-> <<"t", "e", "x", "t">>] } }

\* TransValidate with the checks of the upload before the check of the handle
TransValidateUploadFirst(handle, req) ==
    IF ~req.audio THEN Resp(400, "No audio file provided", "")
    ELSE IF req.filename = <<>> THEN Resp(400, "No audio file selected", "")
    ELSE IF handle = "None" THEN Resp(500, "Model not loaded", "")
    ELSE Pass

\* transcribe() lines 54-63: the validation of a request, given the handle
TransValidate(handle, req) ==
    IF handle = "None" THEN Resp(500, "Model not loaded", "")
    ELSE IF ~req.audio THEN Resp(400, "No audio file provided", "")
    ELSE IF req.filename = <<>> THEN Resp(400, "No audio file selected", "")
    ELSE Pass

ValidSttRequests == { r \in SttRequests : TransValidate("loaded", r) = Pass }

\* transcribe(): which except clause catches an exception raised at a stage.
\* The inner try (lines 72-97) starts after the upload is saved; an
\* exception raised inside its except clause leaves it for the outer try.
SttInnerStages == {"transcribe", "unlink", "format"}

\* SttHandlerOf without the outer try
SttHandlerNoOuter(stage) == IF stage \in SttInnerStages THEN "inner" ELSE "none"

SttHandlerOf(stage) == IF stage \in SttInnerStages THEN "inner" ELSE "outer"

\* The request of a /transcribe response that does not depend on the form
\* field response_format: the request is not drawn
AnyValid == <<>>

\* An exception raised at a stage of thread t's transcribe(), th being the
\* thread's state and d the temporary directory: the inner except clause
\* goes on to its cleanup (line 95), the outer one answers 500
SttRaise(t, th, stage, d) ==
    CASE SttHandlerOf(stage) = "inner" ->
            /\ thr' = [thr EXCEPT ![t] = [th EXCEPT !.pc = "except_exists"]]
            /\ out' = NoOut
            /\ disk' = d
      [] SttHandlerOf(stage) = "outer" ->
            Return(t, th, Resp(500, "Request processing failed", stage), AnyValid, d)
      [] OTHER -> Return(t, th, Uncaught(stage), AnyValid, d)

\* lines 54-66
TransValidating(t) ==
    /\ service = "stt" /\ thr[t].pc = "validating"
    /\ \E req \in SttRequests :
         LET r == TransValidate(model, req) IN
         IF r = Pass
         THEN /\ thr' = [thr EXCEPT ![t].pc = "mktemp"]
              /\ out' = NoOut
              /\ disk' = disk
         ELSE Return(t, thr[t], r, req, disk)
    /\ UNCHANGED <<service, tts_model, model, proc>>

\* line 69: NamedTemporaryFile(delete=False) creates a file
TransMkTemp(t) ==
    /\ service = "stt" /\ thr[t].pc = "mktemp"
    /\ \/ \E n \in FreeNames :
            /\ disk' = [disk EXCEPT ![n] = [exists |-> TRUE, owner |-> t]]
            /\ thr' = [thr EXCEPT ![t].pc = "save", ![t].tmp = n]
            /\ out' = NoOut
       \/ SttRaise(t, thr[t], "mktemp", disk)
    /\ UNCHANGED <<service, tts_model, model, proc>>

\* line 70: audio_file.save(path) opens the path for writing (creating the
\* file if it is not there) and copies the upload, or raises
TransSave(t) ==
    /\ service = "stt" /\ thr[t].pc = "save"
    /\ \/ /\ thr' = [thr EXCEPT ![t].pc = "transcribe"]
          /\ disk' = IF disk[thr[t].tmp].exists THEN disk
                     ELSE [disk EXCEPT ![thr[t].tmp] = [exists |-> TRUE, owner |-> t]]
          /\ out' = NoOut
       \/ SttRaise(t, thr[t], "save", disk)
    /\ UNCHANGED <<service, tts_model, model, proc>>

\* line 75: model.transcribe(path) reads the file
TransTranscribe(t) ==
    /\ service = "stt" /\ thr[t].pc = "transcribe"
    /\ LET th == [thr[t] EXCEPT !.calls = @ + 1] IN
       \/ /\ disk[th.tmp].exists
          /\ thr' = [thr EXCEPT ![t] = [th EXCEPT !.pc = "unlink"]]
          /\ out' = NoOut
          /\ disk' = disk
       \/ SttRaise(t, th, "transcribe", disk)
    /\ UNCHANGED <<service, tts_model, model, proc>>

\* lines 78-90: os.unlink of the path, then the response in the format asked for
TransUnlink(t) ==
    /\ service = "stt" /\ thr[t].pc = "unlink"
    /\ \/ /\ disk[thr[t].tmp].exists
          /\ LET th == [thr[t] EXCEPT !.unlinks = @ + 1]
                 d == [disk EXCEPT ![thr[t].tmp] = NoFile]
             IN  \/ \E req \in ValidSttRequests : Return(t, th, Resp(200, "", ""), req, d)
                 \/ SttRaise(t, th, "format", d)
       \/ SttRaise(t, thr[t], "unlink", disk)
    /\ UNCHANGED <<service, tts_model, model, proc>>

\* line 95 (and 97 when the path is not there): os.path.exists(path)
TransExceptExists(t) ==
    /\ service = "stt" /\ thr[t].pc = "except_exists"
    /\ IF disk[thr[t].tmp].exists
       THEN /\ thr' = [thr EXCEPT ![t].pc = "except_unlink"]
            /\ out' = NoOut
            /\ disk' = disk
       ELSE Return(t, thr[t], Resp(500, "Transcription failed", "inner"), AnyValid, disk)
    /\ UNCHANGED <<service, tts_model, model, proc>>

\* lines 96-97: os.unlink(path) in the except clause, then the 500
TransExceptUnlink(t) ==
    /\ service = "stt" /\ thr[t].pc = "except_unlink"
    /\ \/ /\ disk[thr[t].tmp].exists
          /\ Return(t, [thr[t] EXCEPT !.unlinks = @ + 1],
                    Resp(500, "Transcription failed", "inner"), AnyValid,
                    [disk EXCEPT ![thr[t].tmp] = NoFile])
       \/ SttRaise(t, thr[t], "except_unlink", disk)
    /\ UNCHANGED <<service, tts_model, model, proc>>

-----------------------------------------------------------------------------

Next ==
    \/ TtsMain
    \/ SttMain
    \/ ServeImported
    \/ Health
    \/ GetModels
    \/ GetVoices
    \/ \E t \in Threads : Accept(t)
    \/ \E t \in Threads : SynthValidating(t)
    \/ \E t \in Threads : SynthMkTemp(t)
    \/ \E t \in Threads : SynthTtsToFile(t)
    \/ \E t \in Threads : SynthRead(t)
    \/ \E t \in Threads : SynthFinish(t)
    \/ \E t \in Threads : TransValidating(t)
    \/ \E t \in Threads : TransMkTemp(t)
    \/ \E t \in Threads : TransSave(t)
    \/ \E t \in Threads : TransTranscribe(t)
    \/ \E t \in Threads : TransUnlink(t)
    \/ \E t \in Threads : TransExceptExists(t)
    \/ \E t \in Threads : TransExceptUnlink(t)

Spec == Init /\ [][Next]_vars

-----------------------------------------------------------------------------
\* Properties

FromSynthesize == out.endpoint = "synthesize"
FromTranscribe == out.endpoint = "transcribe"
FromHandler == FromSynthesize \/ FromTranscribe

\* The response_format of a /synthesize request that passed the validation
FormatOf(req) == Get(req.value, "response_format", JStr(Wav))

\* A valid /synthesize request whose response_format is a string other than
\* "wav" in any case
AsksOtherFormat(req) ==
    /\ req \in ValidTtsRequests
    /\ FormatOf(req).type = "string"
    /\ Lower(FormatOf(req).str) # Wav

\* A /synthesize request without a body, or whose JSON object has no 'text'
MissingBodyOrText(req) ==
    \/ req.raw = "absent"
    \/ /\ req.is_json /\ req.raw = "json"
       /\ req.value.type = "object" /\ "text" \notin DOMAIN req.value.fields

\* A /synthesize request whose 'text' is a string of whitespace only
BlankText(req) ==
    /\ req.is_json /\ req.raw = "json"
    /\ req.value.type = "object" /\ "text" \in DOMAIN req.value.fields
    /\ req.value.fields["text"].type = "string"
    /\ Strip(req.value.fields["text"].str) = <<>>

\* C1: once POST /synthesize has returned its response, on whatever exit
\* path, the temporary file the request created is not on disk any more.
SynthesisTempFileRemoved ==
    (FromSynthesize /\ out.tmp # 0) => ~out.tmpLeft

\* C2: once POST /transcribe has returned its response (200 or 500), the
\* temporary file the request created is not on disk any more, and it was
\* unlinked at most once.
TranscriptionTempFileRemoved ==
    (FromTranscribe /\ out.tmp # 0) => (~out.tmpLeft /\ out.unlinks <= 1)

\* C3 as stated: with the model loaded, a /synthesize request with non-blank
\* text and a response_format other than "wav" is always answered 400.
UnsupportedFormatAlways400 ==
    (FromSynthesize /\ out.model_loaded /\ AsksOtherFormat(out.req)) => out.status = 400

\* C3 amended: such a request is answered 400 'Unsupported format' exactly
\* when no step before the format comparison raised (creating the temporary
\* file, tts_to_file, sf.read, os.unlink, time_stretch); when one raised it
\* is answered 500; it is never answered 200.
UnsupportedFormat400UnlessRaised ==
    (FromSynthesize /\ out.model_loaded /\ AsksOtherFormat(out.req)) =>
        \/ /\ out.status = 400 /\ out.error = "Unsupported format" /\ out.raisedAt = ""
        \/ /\ out.status = 500 /\ out.error = "Speech synthesis failed"
           /\ out.raisedAt \in {"mktemp", "tts_to_file", "sf_read", "unlink", "time_stretch"}

\* An "mp3" request answered 400 after its file was synthesized and unlinked
UnsupportedFormatRejected ==
    /\ FromSynthesize /\ out.model_loaded /\ AsksOtherFormat(out.req)
    /\ out.status = 400 /\ out.unlinks = 1

\* C4: /synthesize checks the model, then body and 'text', then blank text:
\* no model gives 500 whatever the body; with a model, a missing body or
\* missing 'text' gives 400 'No text provided' and a blank text 400 'Empty
\* text provided'; in all three the model is not invoked and no temporary
\* file is created.
SynthValidationOrder ==
    FromSynthesize =>
        /\ ~out.model_loaded =>
             /\ out.status = 500 /\ out.error = "TTS model not loaded"
             /\ out.calls = 0 /\ out.tmp = 0
        /\ (out.model_loaded /\ out.phase = "validating" /\ MissingBodyOrText(out.req)) =>
             /\ out.status = 400 /\ out.error = "No text provided"
             /\ out.calls = 0 /\ out.tmp = 0
        /\ (out.model_loaded /\ out.phase = "validating" /\ BlankText(out.req)) =>
             /\ out.status = 400 /\ out.error = "Empty text provided"
             /\ out.calls = 0 /\ out.tmp = 0

\* C5: /transcribe checks the model, then the 'audio' part, then its
\* filename: no model gives 500 whatever the upload; with a model, a missing
\* 'audio' part gives 400 and an empty filename gives 400; in all three no
\* temporary file is created and the model is not invoked.
TranscribeValidationOrder ==
    FromTranscribe =>
        /\ ~out.model_loaded =>
             /\ out.status = 500 /\ out.error = "Model not loaded"
             /\ out.phase = "validating" /\ out.calls = 0 /\ out.tmp = 0
        /\ (out.model_loaded /\ out.phase = "validating") =>
             /\ out.status = 400 /\ out.calls = 0 /\ out.tmp = 0
             /\ out.error = IF ~out.req.audio THEN "No audio file provided"
                            ELSE "No audio file selected"
             /\ ~out.req.audio \/ out.req.filename = <<>>

\* An upload with an empty filename rejected with the model loaded
EmptyFilenameRejected ==
    /\ FromTranscribe /\ out.model_loaded /\ out.phase = "validating"
    /\ out.req.audio /\ out.req.filename = <<>> /\ out.status = 400

\* C6: with the model loaded, a request rejected for its input (while it is
\* validated) is answered 400, and a 500 comes only from the processing
\* stage, when the model call or the file I/O around it raised.
StatusTaxonomy ==
    (FromHandler /\ out.model_loaded) =>
        /\ out.phase = "validating" => out.status = 400
        /\ out.status = 500 => (out.phase = "processing" /\ out.raisedAt # "")

\* The order of a handler's positions
Rank(pc) ==
    CASE pc = "idle" -> 0
      [] pc = "validating" -> 1
      [] pc = "mktemp" -> 2
      [] pc \in {"tts_to_file", "save"} -> 3
      [] pc \in {"sf_read", "transcribe"} -> 4
      [] pc = "unlink" -> 5
      [] pc = "except_exists" -> 6
      [] pc = "except_unlink" -> 7

\* The model is invoked at most once for a request; no exception escapes
\* the handler; a response that is not a 200 has an 'error' field
RequestInv ==
    /\ \A t \in Threads : thr[t].calls <= 1
    /\ FromHandler =>
         /\ out.calls <= 1
         /\ ~out.escaped
         /\ out.status \in {200, 400, 500}
         /\ out.status # 200 => out.error # ""
         /\ out.raisedAt # "" => out.status = 500

\* A step of a thread takes up a request, moves the handler forward without
\* a response, or ends it with its response
RequestStep ==
    \A t \in Threads :
        thr'[t] # thr[t] =>
            \/ thr[t].pc = "idle" /\ thr'[t].pc = "validating" /\ out' = NoOut
            \/ /\ thr[t].pc # "idle" /\ thr'[t].pc # "idle"
               /\ Rank(thr'[t].pc) > Rank(thr[t].pc)
               /\ thr'[t].calls <= thr[t].calls + 1
               /\ out' = NoOut
            \/ /\ thr[t].pc # "idle" /\ thr'[t].pc = "idle"
               /\ out'.endpoint \in {"synthesize", "transcribe"}

\* C7: a request goes from validating through the processing steps, never
\* back, to one response; the model is invoked at most once for it; no
\* exception escapes the handler, and every response that is not a 200 has
\* an 'error' field.
OneResponseNoRetry == []RequestInv /\ [][RequestStep]_vars

\* An exception raised by the os.unlink of line 96 answered by the outer except
ExceptionInExceptClauseCaught ==
    /\ FromTranscribe /\ out.raisedAt = "except_unlink"
    /\ out.status = 500 /\ out.error = "Request processing failed" /\ out.calls = 1

\* C8: a process started through main serves only after the load routine
\* returned success; when loading fails it exits with status 1 and has
\* served nothing.  The synthesis service tries the fallback model exactly
\* when the primary fails, and fails only when both do; the transcription
\* service tries one model.
StartupGating ==
    /\ (proc.viaMain /\ proc.pc = "serving") => (proc.loaded /\ Handle # "None")
    /\ (proc.viaMain /\ ~proc.loaded) =>
         /\ proc.pc = "exited" /\ proc.exitCode = 1
         /\ proc.loads = IF service = "tts" THEN 2 ELSE 1
    /\ proc.pc = "exited" =>
         /\ proc.exitCode = 1
         /\ out = NoOut /\ \A t \in Threads : thr[t] = Idle
    /\ (proc.viaMain /\ proc.loaded) =>
         \/ service = "tts" /\ proc.loads = 1 /\ tts_model = PrimaryModel
         \/ service = "tts" /\ proc.loads = 2 /\ tts_model = FallbackModel
         \/ service = "stt" /\ proc.loads = 1 /\ model = WhisperModel

\* The synthesis service exited after the primary and the fallback load failed
BothLoadsFailed ==
    /\ service = "tts" /\ proc.viaMain /\ ~proc.loaded
    /\ proc.loads = 2 /\ proc.pc = "exited" /\ proc.exitCode = 1

\* C9: the handle is assigned at most once, by the load routine, and keeps
\* that value whatever requests are served; in a process started through
\* main every /health reports model_loaded true and no request is answered
\* 'model not loaded'.
ModelHandleImmutable ==
    /\ proc.assigns <= 1
    /\ (proc.assigns = 0) = (tts_model = "None" /\ model = "None")
    /\ (service = "tts" /\ proc.assigns = 1) =>
         tts_model = (IF proc.loads = 1 THEN PrimaryModel ELSE FallbackModel)
    /\ (service = "stt" /\ proc.assigns = 1) => model = WhisperModel
    /\ (proc.viaMain /\ out.endpoint # "none") =>
         /\ out.model_loaded
         /\ out.error \notin {"TTS model not loaded", "Model not loaded"}

\* /health answered by a process started through main while a request is in flight
HealthAfterMain ==
    /\ out.endpoint = "health" /\ proc.viaMain /\ out.model_loaded
    /\ \E t \in Threads : thr[t].pc = "unlink"

\* Thread t's handler has created its temporary file and not yet unlinked it
HoldsFile(t) ==
    /\ thr[t].pc \in {"tts_to_file", "sf_read", "unlink", "save", "transcribe"}
    /\ disk[thr[t].tmp].exists

\* Thread t's handler is about to write, read or unlink its temporary path
TouchesPath(t) ==
    thr[t].pc \in {"tts_to_file", "sf_read", "unlink", "save", "transcribe", "except_unlink"}

\* C10: a handler that is about to write, read or unlink its temporary path
\* finds there no file of another request, and two requests that hold a
\* temporary file hold different names.
TempFileIsolation ==
    /\ \A t \in Threads :
         (TouchesPath(t) /\ disk[thr[t].tmp].exists) => disk[thr[t].tmp].owner = t
    /\ \A t, u \in Threads :
         (t # u /\ HoldsFile(t) /\ HoldsFile(u)) => thr[t].tmp # thr[u].tmp

====
